---- MODULE Spec2Model ----
(***************************************************************************)
(* sync-repositories: the secure credential store (credentials/keyring.py), *)
(* the askpass credential relay (credentials/auto_askpass.py), the probes  *)
(* and updaters of Git and Subversion (repository/) and the run that       *)
(* discovers and updates the remotes (__main__.py).                        *)
(*                                                                         *)
(* The keyring is a Secret Service collection: a multiset of items, each   *)
(* an attribute dictionary plus a secret.  search_items() returns every    *)
(* item whose attributes include the lookup attributes (an item may carry  *)
(* more attributes than the lookup names); delete_server() depends on it.  *)
(***************************************************************************)
EXTENDS Integers, Sequences, FiniteSets, Bags, TLC

\* ------------------------------------------------------------- bounds
MaxItems == 3

\* ------------------------------------------------------ input universe
\* The identities (protocol, server, port, objname) the calls are made with:
\* one server without object and under two objects, and a second server (the
\* default port, 0).  "" stands for both None and '' : the code only ever
\* tests `if objname:`.
Identities ==
    {<<"git-https", "example.org", 443, "">>,
     <<"git-https", "example.org", 443, "/r.git">>,
     <<"git-https", "example.org", 443, "/q.git">>,
     <<"git-https", "example.org", 0, "/r.git">>}
ServersOf(ids) == {<<id[1], id[2], id[3]>> : id \in ids}
Users == {"alice", "bob"}
Passwords == {"s3cr3t", "pw"}

VARIABLES
    store,        \* the keyring collection: a bag of [attrs, secret] items
    replaceRule,  \* how the service finds the item create_item(replace=True) replaces
    files,        \* the marker files that exist: path -> content
    sessions,     \* the probes and updates started, each with its askpass environment
    last,         \* the last call made: its name, arguments and outcome
    run           \* the run of __main__: its options, position and decisions

vars == <<store, replaceRule, files, sessions, last, run>>

\* --------------------------------------------------------- conversions
\* Python's str(): the decimal text of an int, a str unchanged.
str(v) == IF SubSeq(ToString(v), 1, 1) = "\"" THEN v ELSE ToString(v)

\* str(is_authenticating)
str_bool(b) == IF b THEN "True" ELSE "False"

Range(s) == {s[k] : k \in DOMAIN s}

\* ------------------------------------------------- the Secret Service
\* Item.matches: all the lookup attributes are present with the same value.
Matches(item, attrs) ==
    \A k \in DOMAIN attrs : k \in DOMAIN item.attrs /\ item.attrs[k] = attrs[k]

\* Collection.search_items(attributes): the distinct matching items.
search_items(st, attrs) == {i \in BagToSet(st) : Matches(i, attrs)}

\* Item.delete() on every item of the set S.
delete_items(st, S) == [i \in BagToSet(st) \ S |-> st[i]]

\* Collection.create_item(label, attributes, secret, replace=True): the
\* possible resulting collections.  The service replaces "an item with the
\* same attributes": the one its lookup finds ("lookup") or one whose
\* attribute dictionary is equal ("exact"); otherwise it adds an item.
create_item(st, attrs, secret) ==
    LET new == [attrs |-> attrs, secret |-> secret]
        same == IF replaceRule = "lookup"
                THEN search_items(st, attrs)
                ELSE {i \in BagToSet(st) : i.attrs = attrs}
    IN  IF same = {}
        THEN {st (+) SetToBag({new})}
        ELSE {(st (-) SetToBag({i})) (+) SetToBag({new}) : i \in same}

\* ------------------------------------------------------ keyring.py
APPLICATION == "whisperity/sync-repositories"

\* with_object without its `if objname:` branch: the object is never stored.
with_object_dropped(attrs, objname) == attrs

\* `if objname: attrs['object'] = objname`
with_object(attrs, objname) ==
    IF objname # "" THEN attrs @@ ("object" :> objname) ELSE attrs

note_attrs(protocol, server, port, objname) ==
    with_object(("xdg:schema" :> "org.gnome.keyring.Note")
                @@ ("application" :> APPLICATION)
                @@ ("protocol" :> protocol)
                @@ ("server" :> server)
                @@ ("port" :> str(port)), objname)

password_attrs(protocol, server, port, objname) ==
    with_object(("xdg:schema" :> "org.gnome.keyring.NetworkPassword")
                @@ ("authtype" :> "username-password")
                @@ ("application" :> APPLICATION)
                @@ ("protocol" :> protocol)
                @@ ("server" :> server)
                @@ ("port" :> str(port)), objname)

user_attrs(protocol, server, port, user, objname) ==
    password_attrs(protocol, server, port, objname) @@ ("user" :> user)

\* The values get_credentials returns: None, False, or a list of pairs.
None == [kind |-> "None", creds |-> <<>>]
False == [kind |-> "False", creds |-> <<>>]
List(creds) == [kind |-> "list", creds |-> creds]

\* The orders in which a search can yield the items of S (with their copies).
Orderings(st, S) ==
    LET n == BagCardinality([i \in S |-> st[i]])
    IN  {s \in [1..n -> S] :
            \A i \in S : Cardinality({k \in 1..n : s[k] = i}) = st[i]}

\* SecretStorage.get_credentials: every value the call can return (the
\* service fixes neither which note is first nor the order of credentials).
get_credentials(st, protocol, server, port, objname) ==
    LET notes == search_items(st, note_attrs(protocol, server, port, objname))
        credentials ==
            search_items(st, password_attrs(protocol, server, port, objname))
    IN  IF notes = {}
        THEN {None}
        ELSE UNION {
            IF note.secret = "False"
            THEN {False}
            ELSE {List([k \in DOMAIN s |-> <<s[k].attrs["user"], s[k].secret>>]) :
                    s \in Orderings(st, credentials)}
            : note \in notes}

\* SecretStorage._store_authentication_bool: the possible resulting stores.
_store_authentication_bool(st, protocol, server, port, objname, is_authenticating) ==
    create_item(st, note_attrs(protocol, server, port, objname),
                str_bool(is_authenticating))

\* _set_authenticating storing False, as set_unauthenticated does.
_set_authenticating_as_false(st, protocol, server, port, objname) ==
    _store_authentication_bool(st, protocol, server, port, objname, FALSE)

\* SecretStorage._set_authenticating
_set_authenticating(st, protocol, server, port, objname) ==
    _store_authentication_bool(st, protocol, server, port, objname, TRUE)

\* set_unauthenticated storing True, as _set_authenticating does.
set_unauthenticated_as_true(st, protocol, server, port, objname) ==
    _store_authentication_bool(st, protocol, server, port, objname, TRUE)

\* set_unauthenticated removing the credentials of the identity as well.
set_unauthenticated_forgetting(st, protocol, server, port, objname) ==
    _store_authentication_bool(
        delete_items(st, search_items(st,
            password_attrs(protocol, server, port, objname))),
        protocol, server, port, objname, FALSE)

\* SecretStorage.set_unauthenticated
set_unauthenticated(st, protocol, server, port, objname) ==
    _store_authentication_bool(st, protocol, server, port, objname, FALSE)

\* set_credential without its call of _set_authenticating.
set_credential_no_fact(st, protocol, server, port, user, password, objname) ==
    create_item(st, user_attrs(protocol, server, port, user, objname),
                password)

\* SecretStorage.set_credential
set_credential(st, protocol, server, port, user, password, objname) ==
    UNION {_set_authenticating(s1, protocol, server, port, objname) :
            s1 \in create_item(st,
                       user_attrs(protocol, server, port, user, objname),
                       password)}

\* delete_credential without its `raise KeyError`.
delete_credential_silent(st, protocol, server, port, user, objname) ==
    LET items == search_items(st,
                     user_attrs(protocol, server, port, user, objname))
    IN  IF items = {}
        THEN [store |-> st, raised |-> "none"]
        ELSE [store |-> st, raised |-> "TypeError"]

\* SecretStorage.delete_credential: [store, raised].  `items` is a list, and
\* next() of a list raises TypeError before any delete() is called.
delete_credential(st, protocol, server, port, user, objname) ==
    LET items == search_items(st,
                     user_attrs(protocol, server, port, user, objname))
    IN  IF items = {}
        THEN [store |-> st, raised |-> "KeyError"]
        ELSE [store |-> st, raised |-> "TypeError"]

\* delete_server without its second loop: the notes stay.
delete_server_keeps_notes(st, protocol, server, port) ==
    delete_items(st, search_items(st,
            ("authtype" :> "username-password")
            @@ ("application" :> APPLICATION)
            @@ ("protocol" :> protocol)
            @@ ("server" :> server)
            @@ ("port" :> str(port))))

\* SecretStorage.delete_server
delete_server(st, protocol, server, port) ==
    LET credentials == search_items(st,
            ("authtype" :> "username-password")
            @@ ("application" :> APPLICATION)
            @@ ("protocol" :> protocol)
            @@ ("server" :> server)
            @@ ("port" :> str(port)))
        s1 == delete_items(st, credentials)
        notes == search_items(s1, note_attrs(protocol, server, port, ""))
    IN  delete_items(s1, notes)

\* ------------------------------------------------------------ calls
\* The items a call changed, each with the number of copies stored before.
Changed(before, after) ==
    [i \in {j \in BagToSet(before) \cup BagToSet(after) :
                CopiesIn(j, before) # CopiesIn(j, after)}
        |-> CopiesIn(i, before)]

\* A call of the keyring: no session, no marker file, no output.
Call(op, id, user, password, raised, ret, after) ==
    [op |-> op, protocol |-> id[1], server |-> id[2], port |-> str(id[3]),
     objname |-> id[4], user |-> user, password |-> password,
     raised |-> raised, ret |-> ret, before |-> Changed(store, after),
     session |-> 0, content |-> "", stdout |-> "", exit |-> 0]

Fits(st) == BagCardinality(st) <= MaxItems

\* __main__ before `argv = ARGS.parse_args()`: nothing decided yet.  The
\* values its locals take are kept, each with the remote it was taken for.
NotStarted ==
    [pc |-> "idle", daemon |-> FALSE, remote |-> 0,
     needs_credentials |-> FALSE, can_update |-> FALSE,
     check_authentication |-> {}, check |-> {}, credentials_stored |-> {},
     entered |-> {}, check_credentials |-> {}, discovered |-> {},
     repo_data |-> <<>>, prompted |-> {}, skipped |-> {},
     kr_creds |-> <<>>, kr_cred |-> 0, attempted |-> {}, updated |-> {},
     commands |-> {}, raised |-> "none",
     update_success |-> FALSE, attempts |-> {}, failed |-> {},
     rerun |-> FALSE, validated |-> {}, known |-> {}, relayed |-> {}]

Init ==
    /\ store = EmptyBag
    /\ replaceRule \in {"exact", "lookup"}
    /\ files = <<>>
    /\ sessions = <<>>
    /\ last = [op |-> "init", protocol |-> "", server |-> "", port |-> "",
               objname |-> "", user |-> "", password |-> "",
               raised |-> "none", ret |-> None, before |-> <<>>,
               session |-> 0, content |-> "", stdout |-> "", exit |-> 0]
    /\ run = NotStarted

SetCredentialIn(ids, credentials) ==
    \E id \in ids, <<user, password>> \in credentials :
        /\ store' \in set_credential(store, id[1], id[2], id[3],
                                     user, password, id[4])
        /\ Fits(store')
        /\ last' = Call("set_credential", id, user, password, "none", None,
                        store')
        /\ UNCHANGED <<replaceRule, files, sessions, run>>

SetAuthenticatingIn(ids) ==
    \E id \in ids :
        /\ store' \in _set_authenticating(store, id[1], id[2], id[3], id[4])
        /\ Fits(store')
        /\ last' = Call("_set_authenticating", id, "", "", "none", None, store')
        /\ UNCHANGED <<replaceRule, files, sessions, run>>

SetUnauthenticatedIn(ids) ==
    \E id \in ids :
        /\ store' \in set_unauthenticated(store, id[1], id[2], id[3], id[4])
        /\ Fits(store')
        /\ last' = Call("set_unauthenticated", id, "", "", "none", None, store')
        /\ UNCHANGED <<replaceRule, files, sessions, run>>

DeleteCredential ==
    \E id \in Identities, user \in Users :
        LET r == delete_credential(store, id[1], id[2], id[3], user, id[4])
        IN  /\ store' = r.store
            /\ last' = Call("delete_credential", id, user, "", r.raised, None,
                            r.store)
            /\ UNCHANGED <<replaceRule, files, sessions, run>>

DeleteServerIn(ids) ==
    \E id \in ids :
        /\ store' = delete_server(store, id[1], id[2], id[3])
        /\ last' = Call("delete_server", <<id[1], id[2], id[3], "">>, "", "",
                        "none", None, store')
        /\ UNCHANGED <<replaceRule, files, sessions, run>>

GetCredentials ==
    \E id \in Identities :
        \E ret \in get_credentials(store, id[1], id[2], id[3], id[4]) :
            /\ last' = Call("get_credentials", id, "", "", "none", ret, store)
            /\ UNCHANGED <<store, replaceRule, files, sessions, run>>

DeleteServer == DeleteServerIn(Identities)
SetCredential == SetCredentialIn(Identities, Users \X Passwords)
SetAuthenticating == SetAuthenticatingIn(Identities)
SetUnauthenticated == SetUnauthenticatedIn(Identities)

Next ==
    \/ SetCredential
    \/ SetAuthenticating
    \/ SetUnauthenticated
    \/ DeleteCredential
    \/ DeleteServer
    \/ GetCredentials

Spec == Init /\ [][Next]_vars

\* ------------------------------------------------- auto_askpass.py
EndsWith(s, suffix) ==
    /\ Len(s) >= Len(suffix)
    /\ SubSeq(s, Len(s) - Len(suffix) + 1, Len(s)) = suffix

\* A tempfile.mkstemp() that hands out the newest marker's path again.
mkstemp_reused == IF sessions = <<>> THEN 1 ELSE Len(sessions)

\* tempfile.mkstemp(): a file that did not exist, under a name of its own.
mkstemp == Len(sessions) + 1

\* The (username, password) pairs entered at the prompt.
Credentials == {<<"alice", "s3cr3t">>, <<"bob", "pw">>}

\* create(protocol, host, port, objname) of sync_repositories/credentials:
\* the environment of the child; `filepath` is the marker file, written 'U'.
create(protocol, host, port, objname, filepath) ==
    [SR_ASKPASS_PROTOCOL |-> IF protocol # "" THEN protocol ELSE "",
     SR_ASKPASS_SERVER |-> IF host # "" THEN host ELSE "",
     SR_ASKPASS_PORT |-> IF port # 0 THEN str(port) ELSE "0",
     SR_ASKPASS_OBJECT |-> IF objname # "" THEN objname ELSE "",
     SR_ASKPASS_TEMP |-> filepath,
     SR_ASKPASS_TEMPORARY_CREDENTIAL |-> ""]

\* create(protocol, host, port, objname) of credentials/auto_askpass.py.
legacy_create(protocol, host, port, objname, filepath) ==
    [SR_ASKPASS_PROTOCOL |-> protocol,
     SR_ASKPASS_SERVER |-> host,
     SR_ASKPASS_PORT |-> str(port),
     SR_ASKPASS_OBJECT |-> objname,
     SR_ASKPASS_TEMP |-> filepath,
     SR_ASKPASS_TEMPORARY_CREDENTIAL |-> ""]

\* create_with_credentials: the possible [store, env] after it.
create_with_credentials(st, username, password, protocol, host, port, objname, filepath) ==
    {[store |-> s1,
      env |-> [create("temp", host, port, objname \o "__TEMP", filepath)
                 EXCEPT !.SR_ASKPASS_TEMPORARY_CREDENTIAL = "1"]] :
        s1 \in set_credential(st, "temp", host, port, username, password,
                              objname \o "__TEMP")}

\* `if not credentials:` is taken for None, False and the empty list.
Truthy(credentials) == credentials.kind = "list" /\ Len(credentials.creds) > 0

\* What execute prints for the marker content it read, password first.
answer_swapped(content, username, password) ==
    IF content = "U" THEN password
    ELSE IF content = "P" THEN username
    ELSE ""

\* What execute prints for the marker content it read.
answer(content, username, password) ==
    IF content = "U" THEN username
    ELSE IF content = "P" THEN password
    ELSE ""

\* execute() that keeps its place in the handshake by writing what it has
\* just printed into the marker file.
respond_marks_with_secret(st, fs, env, credentials, invalid_exit, temporary) ==
    LET filepath == env.SR_ASKPASS_TEMP
        done == [store |-> st, files |-> fs, stdout |-> "", exit |-> 0,
                 raised |-> "none"]
    IN  IF ~Truthy(credentials)
        THEN [done EXCEPT !.stdout = "invalid\n", !.exit = invalid_exit]
        ELSE IF filepath \notin DOMAIN fs
        THEN [done EXCEPT !.exit = 1, !.raised = "FileNotFoundError"]
        ELSE LET username == credentials.creds[1][1]
                 password == credentials.creds[1][2]
                 content == fs[filepath]
             IN  IF content = "U"
                 THEN [done EXCEPT !.stdout = username,
                                   !.files = [fs EXCEPT ![filepath] = username]]
                 ELSE [done EXCEPT !.stdout = password,
                         !.files = [f \in DOMAIN fs \ {filepath} |-> fs[f]]]

\* The body the two execute() share: one invocation of the helper with the
\* environment env, credentials being what get_credentials returned to it.
\* invalid_exit is the status of the "invalid" path; temporary tells whether
\* this execute() deletes a temporary credential after the password.
respond(st, fs, env, credentials, invalid_exit, temporary) ==
    LET objname == env.SR_ASKPASS_OBJECT
        filepath == env.SR_ASKPASS_TEMP
        done == [store |-> st, files |-> fs, stdout |-> "", exit |-> 0,
                 raised |-> "none"]
    IN  IF ~Truthy(credentials)
        THEN [done EXCEPT !.stdout = "invalid\n", !.exit = invalid_exit]
        ELSE IF filepath \notin DOMAIN fs
        THEN [done EXCEPT !.exit = 1, !.raised = "FileNotFoundError"]
        ELSE LET username == credentials.creds[1][1]
                 password == credentials.creds[1][2]
                 content == fs[filepath]
                 printed == [done EXCEPT
                                !.stdout = answer(content, username, password)]
             IN  IF content = "U"
                 THEN [printed EXCEPT !.files = [fs EXCEPT ![filepath] = "P"]]
                 ELSE IF content = "P"
                 THEN [printed EXCEPT
                        !.files = [f \in DOMAIN fs \ {filepath} |-> fs[f]],
                        !.store =
                            IF /\ temporary
                               /\ env.SR_ASKPASS_TEMPORARY_CREDENTIAL # ""
                               /\ env.SR_ASKPASS_PROTOCOL = "temp"
                               /\ objname # ""
                               /\ EndsWith(objname, "__TEMP")
                            THEN delete_server(st, env.SR_ASKPASS_PROTOCOL,
                                               env.SR_ASKPASS_SERVER,
                                               env.SR_ASKPASS_PORT)
                            ELSE st]
                 ELSE printed

\* execute() that leaves the temporary credential in the keyring.
execute_keeps_temporary(st, fs, env, credentials) ==
    respond(st, fs, env, credentials, 0, FALSE)

\* execute() of sync_repositories/credentials/auto_askpass.py
execute(st, fs, env, credentials) ==
    respond(st, fs, env, credentials, 0, TRUE)

\* execute() of credentials/auto_askpass.py whose "invalid" path exits 0.
legacy_execute_exits_zero(st, fs, env, credentials) ==
    respond(st, fs, env, credentials, 0, FALSE)

\* execute() of credentials/auto_askpass.py
legacy_execute(st, fs, env, credentials) ==
    respond(st, fs, env, credentials, 1, FALSE)

\* ------------------------------------------------- detectors
\* Python's None given as the username or the password of a checker.
Absent == "<None>"

Optional(S) == S \cup {Absent}

\* True, as False above: what a detector returns.
True == [kind |-> "True", creds |-> <<>>]

\* Git.UsernamePasswordAuthenticationChecker.__init__ under a one-sided
\* credential taken as no credential.
Git_init_lenient(username, password) ==
    [_credentials |-> username # Absent /\ password # Absent, raised |-> "none"]

\* Git.UsernamePasswordAuthenticationChecker.__init__: self._credentials, or
\* the ValueError.
Git_init(username, password) ==
    IF username = Absent /\ password = Absent
    THEN [_credentials |-> FALSE, raised |-> "none"]
    ELSE IF username # Absent /\ password # Absent
    THEN [_credentials |-> TRUE, raised |-> "none"]
    ELSE [_credentials |-> FALSE, raised |-> "ValueError"]

\* Subversion.UsernamePasswordAuthenticationChecker.__init__
Subversion_init(username, password) ==
    IF username = Absent /\ password = Absent
    THEN [_credentials |-> FALSE, raised |-> "none"]
    ELSE IF username # Absent /\ password # Absent
    THEN [_credentials |-> TRUE, raised |-> "none"]
    ELSE [_credentials |-> FALSE, raised |-> "ValueError"]

\* The exit status of a child that ended in the way `outcome`.
returncode(outcome) == IF outcome = "zero" THEN 0 ELSE 1

\* What the child printed, as the pieces of its output.
output(outcome) ==
    IF outcome = "authentication_failed"
    THEN <<"fatal:", "Authentication failed", "for", "remote">>
    ELSE IF outcome = "failed"
    THEN <<"fatal:", "unable to access", "remote">>
    ELSE <<>>

\* _fun that takes every non-zero exit for a demand of authentication.
_fun_conflating(outcome) ==
    IF returncode(outcome) = 0
    THEN [ret |-> False, raised |-> "none"]
    ELSE [ret |-> True, raised |-> "none"]

\* _fun of the Git and of the Subversion checker, from subprocess.run(...,
\* check=True) on: False, True, or the CalledProcessError raised again.
_fun(outcome) ==
    IF returncode(outcome) = 0
    THEN [ret |-> False, raised |-> "none"]
    ELSE IF "Authentication failed" \in Range(output(outcome))
    THEN [ret |-> True, raised |-> "none"]
    ELSE [ret |-> None, raised |-> "CalledProcessError"]

\* `not self._fun()`
not_fun(outcome) ==
    LET r == _fun(outcome)
    IN  IF r.raised # "none" THEN r
        ELSE [r EXCEPT !.ret = IF @ = True THEN False ELSE True]

\* check() of the detector "git", "svn" or "none" (the validator of a
\* remote that does not authenticate, which runs nothing).
check(detector, outcome) ==
    IF detector = "none"
    THEN [ret |-> False, raised |-> "none"]
    ELSE _fun(outcome)

\* check_credentials() of the detector; _credentials tells whether the
\* checker was made with a username and a password.
check_credentials(detector, _credentials, outcome) ==
    IF detector = "none"
    THEN [ret |-> True, raised |-> "none"]
    ELSE IF detector = "svn" /\ ~_credentials
    THEN [ret |-> None, raised |-> "NotImplementedError"]
    ELSE not_fun(outcome)

\* ------------------------------------------------- probes and updates
\* The remotes the probes and updates are run for: one with a port and an
\* object, one with neither.
Remotes ==
    {<<"git-https", "example.org", 443, "/r.git">>,
     <<"git-https", "example.org", 0, "">>}

Modules == {"sync_repositories", "credentials"}

\* How the external tool's run can end: exit zero, exit non-zero printing
\* "Authentication failed", or exit non-zero for another reason.
Outcomes == {"zero", "authentication_failed", "failed"}

\* One probe or update is followed, from its start to its end.
Idle == sessions = <<>>

Session(kind, module, env) ==
    [kind |-> kind, module |-> module, env |-> env, state |-> "running"]

Started(op, env, after) ==
    [op |-> op, protocol |-> env.SR_ASKPASS_PROTOCOL,
     server |-> env.SR_ASKPASS_SERVER, port |-> env.SR_ASKPASS_PORT,
     objname |-> env.SR_ASKPASS_OBJECT, user |-> "", password |-> "",
     raised |-> "none", ret |-> None, before |-> Changed(store, after),
     session |-> Len(sessions) + 1, content |-> "", stdout |-> "", exit |-> 0,
     marks |-> files]

\* Git.UsernamePasswordAuthenticationChecker._fun without credentials and
\* Git.UsernamePasswordWrappingUpdater.update, up to the start of the child.
StartWith(kind) ==
    \E id \in Remotes, module \in Modules :
        LET filepath == mkstemp
            env == IF module = "sync_repositories"
                   THEN create(id[1], id[2], id[3], id[4], filepath)
                   ELSE legacy_create(id[1], id[2], id[3], id[4], filepath)
        IN  /\ Idle
            /\ files' = files @@ (filepath :> "U")
            /\ sessions' = Append(sessions, Session(kind, module, env))
            /\ last' = Started("create", env, store)
            /\ UNCHANGED <<store, replaceRule, run>>

StartCheck == StartWith("check")

StartUpdate == StartWith("update")

\* Git.UsernamePasswordAuthenticationChecker._fun with credentials, up to
\* the start of the child.
StartCheckCredentials ==
    \E id \in Remotes, <<username, password>> \in Credentials :
        LET filepath == mkstemp
        IN  \E c \in create_with_credentials(store, username, password,
                         id[1], id[2], id[3], id[4], filepath) :
                /\ Idle
                    /\ Fits(c.store)
                /\ store' = c.store
                /\ files' = files @@ (filepath :> "U")
                /\ sessions' = Append(sessions,
                        Session("check_credentials", "sync_repositories", c.env))
                /\ last' = [Started("create_with_credentials", c.env, c.store)
                            EXCEPT !.user = username, !.password = password]
                /\ UNCHANGED <<replaceRule, run>>

\* The external tool of the session k runs its askpass program: __main__
\* enters execute().
Answered(k) ==
    LET env == sessions[k].env
        filepath == env.SR_ASKPASS_TEMP
    IN  /\ sessions[k].state = "running"
        /\ \E credentials \in get_credentials(store,
                    env.SR_ASKPASS_PROTOCOL, env.SR_ASKPASS_SERVER,
                    env.SR_ASKPASS_PORT, env.SR_ASKPASS_OBJECT) :
            LET r == IF sessions[k].module = "sync_repositories"
                     THEN execute(store, files, env, credentials)
                     ELSE legacy_execute(store, files, env, credentials)
            IN  /\ store' = r.store
                /\ files' = r.files
                /\ UNCHANGED sessions
                /\ last' = [op |-> "execute",
                            protocol |-> env.SR_ASKPASS_PROTOCOL,
                            server |-> env.SR_ASKPASS_SERVER,
                            port |-> env.SR_ASKPASS_PORT,
                            objname |-> env.SR_ASKPASS_OBJECT,
                            user |-> "", password |-> "",
                            raised |-> r.raised, ret |-> credentials,
                            before |-> Changed(store, r.store),
                            session |-> k,
                            content |-> IF filepath \in DOMAIN files
                                        THEN files[filepath] ELSE "missing",
                            stdout |-> r.stdout, exit |-> r.exit,
                            marks |-> files]
        /\ UNCHANGED replaceRule

Helper == \E k \in DOMAIN sessions : Answered(k) /\ UNCHANGED run

\* update() of the Git and of the Subversion updater, from subprocess.run
\* on: True, or False for the CalledProcessError it catches.
update_returns(outcome) ==
    [ret |-> IF returncode(outcome) = 0 THEN True ELSE False, raised |-> "none"]

\* What the child of a detector or updater call left: its exit status and
\* its output.
Child(detector, outcome) ==
    [detector |-> detector, returncode |-> returncode(outcome),
     output |-> output(outcome)]

\* The child ends: _fun returns False (exit zero), returns True (output has
\* "Authentication failed") or raises CalledProcessError; update returns
\* True or False.
Finish ==
    \E k \in DOMAIN sessions, outcome \in Outcomes :
        LET env == sessions[k].env
            r == IF sessions[k].kind = "check"
                 THEN check("git", outcome)
                 ELSE IF sessions[k].kind = "check_credentials"
                 THEN check_credentials("git", TRUE, outcome)
                 ELSE update_returns(outcome)
        IN  /\ sessions[k].state = "running"
            /\ sessions' = [sessions EXCEPT ![k].state = outcome]
            /\ last' = Child("git", outcome) @@
                       [op |-> "finish",
                        protocol |-> env.SR_ASKPASS_PROTOCOL,
                        server |-> env.SR_ASKPASS_SERVER,
                        port |-> env.SR_ASKPASS_PORT,
                        objname |-> env.SR_ASKPASS_OBJECT,
                        user |-> "", password |-> "",
                        raised |-> r.raised, ret |-> r.ret,
                        before |-> <<>>, session |-> k,
                        content |-> "", stdout |-> "", exit |-> 0]
            /\ UNCHANGED <<store, replaceRule, files, run>>

\* A checker is made: Git.UsernamePasswordAuthenticationChecker(repository,
\* remote, parts, username, password) or its Subversion counterpart.
Construct ==
    \E detector \in {"git", "svn"} :
    \E username \in Optional(Users), password \in Optional(Passwords) :
        LET r == IF detector = "git" THEN Git_init(username, password)
                                     ELSE Subversion_init(username, password)
        IN  /\ last' = [detector |-> detector] @@
                       Call("__init__", <<"", "", 0, "">>, username, password,
                            r.raised, IF r._credentials THEN True ELSE False,
                            store)
            /\ UNCHANGED <<store, replaceRule, files, sessions, run>>

\* check() or check_credentials() of a detector that uses no relay: the
\* Subversion checker, whose child ends in one of the Outcomes, and the
\* validator of a remote that does not authenticate, which has no child.
Detect ==
    \E detector \in {"svn", "none"}, method \in {"check", "check_credentials"} :
    \E _credentials \in BOOLEAN, outcome \in Outcomes :
        LET r == IF method = "check"
                 THEN check(detector, outcome)
                 ELSE check_credentials(detector, _credentials, outcome)
        IN  /\ detector = "none" => (outcome = "zero" /\ ~_credentials)
            /\ last' = Child(detector, outcome) @@
                       Call(method, <<"", "", 0, "">>, "", "", r.raised, r.ret,
                            store)
            /\ UNCHANGED <<store, replaceRule, files, sessions, run>>

RelayNext ==
    \/ SetCredentialIn(Remotes, Credentials)
    \/ SetAuthenticatingIn(Remotes)
    \/ SetUnauthenticatedIn(Remotes)
    \/ StartCheck
    \/ StartUpdate
    \/ StartCheckCredentials
    \/ Helper
    \/ Finish

SpecRelay == Init /\ [][RelayNext]_vars

\* ------------------------------------------------- the handshake, followed
\* The credentials stored under exactly the identity of the environment env.
StoredFor(st, env) ==
    {i \in BagToSet(st) :
        /\ i.attrs["xdg:schema"] = "org.gnome.keyring.NetworkPassword"
        /\ i.attrs["protocol"] = env.SR_ASKPASS_PROTOCOL
        /\ i.attrs["server"] = env.SR_ASKPASS_SERVER
        /\ i.attrs["port"] = env.SR_ASKPASS_PORT
        /\ (IF "object" \in DOMAIN i.attrs THEN i.attrs["object"] ELSE "")
                = env.SR_ASKPASS_OBJECT}

\* An invocation of the helper, with what it printed kept when it printed a
\* username or a password: the session, the marker content it read, its
\* output and the (username, password) pairs stored under the identity of
\* its environment when it was entered.
Relayed ==
    \E k \in DOMAIN sessions :
        LET env == sessions[k].env
            pairs == {<<i.attrs["user"], i.secret>> :
                        i \in StoredFor(store, env)}
        IN  /\ Answered(k)
            /\ run' = IF last'.raised = "none" /\ Truthy(last'.ret)
                            /\ last'.content \in {"U", "P"}
                       THEN [run EXCEPT !.relayed = @ \cup
                                {[session |-> k, content |-> last'.content,
                                  stdout |-> last'.stdout, pairs |-> pairs]}]
                       ELSE run

\* One session is followed while the keyring is written to: credentials are
\* set for the remotes and servers are deleted between the invocations of
\* the helper.
HandshakeNext ==
    \/ SetCredentialIn(Remotes, Credentials)
    \/ DeleteServerIn(Remotes)
    \/ StartCheck
    \/ StartUpdate
    \/ StartCheckCredentials
    \/ Relayed

SpecHandshake == Init /\ [][HandshakeNext]_vars

\* ------------------------------------------------- sessions side by side
\* The number of children that run at once.
MaxSessions == 2

\* os.write(handle, 'U'): the marker files with the one at filepath made.
Written(fs, filepath) ==
    [f \in DOMAIN fs \cup {filepath} |-> IF f = filepath THEN "U" ELSE fs[f]]

\* create() of either module, called while other children may be running.
Create ==
    \E id \in Remotes, module \in Modules :
        LET filepath == mkstemp
            env == IF module = "sync_repositories"
                   THEN create(id[1], id[2], id[3], id[4], filepath)
                   ELSE legacy_create(id[1], id[2], id[3], id[4], filepath)
        IN  /\ Len(sessions) < MaxSessions
            /\ files' = Written(files, filepath)
            /\ sessions' = Append(sessions, Session("check", module, env))
            /\ last' = Started("create", env, store)
            /\ UNCHANGED <<store, replaceRule, run>>

\* create_with_credentials(), called for one of the identities ids while
\* other children may be running and the keyring has room for its entry.
CreateWithCredentialsIn(ids, room) ==
    \E id \in ids, <<username, password>> \in Credentials :
        LET filepath == mkstemp
        IN  \E c \in create_with_credentials(store, username, password,
                         id[1], id[2], id[3], id[4], filepath) :
                /\ Len(sessions) < MaxSessions
                /\ BagCardinality(c.store) <= room
                /\ store' = c.store
                /\ files' = Written(files, filepath)
                /\ sessions' = Append(sessions,
                        Session("check_credentials", "sync_repositories", c.env))
                /\ last' = [Started("create_with_credentials", c.env, c.store)
                            EXCEPT !.user = username, !.password = password]
                /\ UNCHANGED <<replaceRule, run>>

CreateWithCredentials == CreateWithCredentialsIn(Remotes, MaxItems)

\* The credential stored for a remote while its children run.
Kept == {<<"alice", "s3cr3t">>}

\* The children run side by side and ask the helper in any order; how each
\* of them ends is left out.
SessionsNext ==
    \/ SetCredentialIn(Remotes, Kept)
    \/ Create
    \/ CreateWithCredentials
    \/ Helper

SpecSessions == Init /\ [][SessionsNext]_vars

\* Two clones of one server and port, of different objects, whose entered
\* credentials are validated side by side.
Validations ==
    {<<"git-https", "example.org", 443, "/r.git">>,
     <<"git-https", "example.org", 443, "/q.git">>}

\* The validations of credentials entered for remotes of one server: a
\* credential may be stored for them already, and every validation adds its
\* temporary credential and Fact to the keyring.
ValidationsNext ==
    \/ SetCredentialIn(Validations, Kept)
    \/ CreateWithCredentialsIn(Validations, MaxItems + 2 * MaxSessions)
    \/ Helper

SpecValidations == Init /\ [][ValidationsNext]_vars

\* The detectors alone: checkers are made, and check() and
\* check_credentials() run, those of Git through the relay.
DetectorNext ==
    \/ Construct
    \/ Detect
    \/ StartCheck
    \/ StartCheckCredentials
    \/ Helper
    \/ Finish

SpecDetector == Init /\ [][DetectorNext]_vars

\* ------------------------------------------------- repository/
\* The number of URLs one Git remote can have.
MaxUrls == 2

\* The URLs met in the working copies, in the order of their text (the
\* order sorted() puts them in), each with what urllib.parse.urlparse finds
\* in it; port is <<>> for a URL that names none.  A URL is known by its
\* place in this list.
Urls ==
    <<[text |-> "git://example.org/r.git", scheme |-> "git",
       hostname |-> "example.org", port |-> <<>>, path |-> "/r.git"],
      [text |-> "https://example.org/r.git", scheme |-> "https",
       hostname |-> "example.org", port |-> <<>>, path |-> "/r.git"],
      [text |-> "https://example.org:443/r.git", scheme |-> "https",
       hostname |-> "example.org", port |-> <<443>>, path |-> "/r.git"],
      [text |-> "https://git.example.com:8443/q.git", scheme |-> "https",
       hostname |-> "git.example.com", port |-> <<8443>>, path |-> "/q.git"],
      [text |-> "ssh://example.org/r.git", scheme |-> "ssh",
       hostname |-> "example.org", port |-> <<>>, path |-> "/r.git"]>>

\* urllib.parse.urlparse(url)
urlparse(url) == Urls[url]

\* The names of the remotes of a clone, in the order of their text.
RemoteNames == <<"mirror", "origin">>

\* (name, url) < (name, url) of Python tuples of strings.
tuple_lt(a, b) ==
    LET rank(name) == CHOOSE k \in DOMAIN RemoteNames : RemoteNames[k] = name
    IN  \/ rank(a[1]) < rank(b[1])
        \/ a[1] = b[1] /\ a[2] < b[2]

\* sorted(self.urls)
RECURSIVE sorted(_)
sorted(s) ==
    IF s = <<>>
    THEN <<>>
    ELSE LET m == CHOOSE k \in DOMAIN s :
                    /\ \A j \in DOMAIN s : ~tuple_lt(s[j], s[k])
                    /\ \A j \in 1..(k - 1) : tuple_lt(s[k], s[j])
         IN  <<s[m]>> \o sorted(SubSeq(s, 1, m - 1)
                                    \o SubSeq(s, m + 1, Len(s)))

\* `for remote in repo.remotes: for url in remote.urls:
\* self.urls.append((remote.name, url))`
RECURSIVE appended(_)
appended(remotes) ==
    IF remotes = <<>>
    THEN <<>>
    ELSE [k \in DOMAIN Head(remotes).urls |->
                <<Head(remotes).name, Head(remotes).urls[k]>>]
         \o appended(Tail(remotes))

\* The authentication method Git.__init__ takes from the scheme of a URL.
method_of(scheme) ==
    IF scheme \in {"http", "https", "ftp", "ftps"} THEN "KEYRING"
    ELSE IF scheme \in {"git", "file"} THEN "None"
    ELSE "SSH_AGENT"

\* Git.__init__, for the remotes of the clone's configuration: the sorted
\* (name, url) pairs, one for every URL of every remote, and the method of
\* each remote, which the last of its URLs decides.
Git(remotes) ==
    [kind |-> "git",
     urls |-> sorted(appended(remotes)),
     _auth_methods |->
        [name \in {remotes[k].name : k \in DOMAIN remotes} |->
            LET remote == remotes[CHOOSE k \in DOMAIN remotes :
                                        remotes[k].name = name]
            IN  method_of(urlparse(remote.urls[Len(remote.urls)]).scheme)]]

\* Subversion.__init__, for the root URL `svn info` reports.
Subversion(root) ==
    [kind |-> "svn",
     urls |-> <<<<"root", root>>>>,
     _auth_methods |-> ("root" :> "KEYRING")]

\* `next(filter(lambda r: r[0] == remote, self.urls))[1]`
first_url(repo, remote) ==
    repo.urls[CHOOSE k \in DOMAIN repo.urls :
                /\ repo.urls[k][1] = remote
                /\ \A j \in 1..(k - 1) : repo.urls[j][1] # remote][2]

\* Git.get_remote_objname and Subversion.get_remote_objname
get_remote_objname(repo, remote) ==
    IF repo.kind = "svn"
    THEN urlparse(repo.urls[1][2]).path
    ELSE urlparse(first_url(repo, remote)).path

\* `parse_result.port if parse_result.port else 0`
port_or_0(parse_result) ==
    IF parse_result.port = <<>> THEN 0 ELSE parse_result.port[1]

\* The identity tuple both methods build from a URL and a remote name.
parts_of(repo, url, remote) ==
    <<repo.kind \o "-" \o urlparse(url).scheme, urlparse(url).hostname,
      port_or_0(urlparse(url)), get_remote_objname(repo, remote)>>

\* Repository.get_remote_parts: (url, parts)
get_remote_parts(repo, remote) ==
    LET url == first_url(repo, remote)
    IN  <<url, parts_of(repo, url, remote)>>

\* Repository.get_remotes: the (remote, url, parts) it yields, in order.
get_remotes(repo) ==
    [k \in DOMAIN repo.urls |->
        <<repo.urls[k][1], repo.urls[k][2],
          parts_of(repo, repo.urls[k][2], repo.urls[k][1])>>]

\* The lists of URLs a Git remote can have: one URL or several different
\* ones (`git remote set-url --add`).
UrlLists ==
    {urls \in UNION {[1..n -> DOMAIN Urls] : n \in 1..MaxUrls} :
        \A j, k \in DOMAIN urls : j # k => urls[j] # urls[k]}

\* The configurations of a clone: one remote or two, of different names.
GitConfigs ==
    {<<[name |-> name, urls |-> urls]>> :
        name \in Range(RemoteNames), urls \in UrlLists}
    \cup {<<[name |-> RemoteNames[i], urls |-> u1],
            [name |-> RemoteNames[3 - i], urls |-> u2]>> :
                i \in 1..2, u1 \in UrlLists, u2 \in UrlLists}

\* A call made on a repository object.
Asked(op, repo, remote, ret) ==
    [op |-> op, repo |-> repo, remote |-> remote, ret |-> ret]

\* get_repositories: a Git clone or a Subversion working copy is found and
\* its object made; the calls that follow are made on that object.
GetRepositories ==
    /\ last.op = "init"
    /\ \E repo \in {Git(remotes) : remotes \in GitConfigs}
                    \cup {Subversion(root) : root \in DOMAIN Urls} :
            last' = Asked("__init__", repo, "", <<>>)
    /\ UNCHANGED <<store, replaceRule, files, sessions, run>>

\* repo.get_remotes(), as the discovery loop of __main__ calls it.
GetRemotes ==
    /\ last.op \in {"__init__", "get_remotes", "get_remote_parts"}
    /\ last' = Asked("get_remotes", last.repo, "", get_remotes(last.repo))
    /\ UNCHANGED <<store, replaceRule, files, sessions, run>>

\* repo.get_remote_parts(remote), as the factories of the checkers and the
\* updaters call it.
GetRemoteParts ==
    /\ last.op \in {"__init__", "get_remotes", "get_remote_parts"}
    /\ \E remote \in DOMAIN last.repo._auth_methods :
            last' = Asked("get_remote_parts", last.repo, remote,
                          get_remote_parts(last.repo, remote))
    /\ UNCHANGED <<store, replaceRule, files, sessions, run>>

RemotesNext ==
    \/ GetRepositories
    \/ GetRemotes
    \/ GetRemoteParts

SpecRemotes == Init /\ [][RemotesNext]_vars

\* ------------------------------------------------------ __main__.py
\* credentials.Backends: the ways a remote authenticates.  A remote of a
\* transport that does not authenticate has the method "None".
Backends == {"KEYRING", "SSH_AGENT"}

\* The repositories found under the root folder, one remote each, in the
\* order os.walk yields them: a Git clone over https, a Subversion working
\* copy over https (no port in its URL), a Git clone over git:// and a Git
\* clone over ssh://.
Worktree ==
    <<[kind |-> "git", remote |-> "origin", method |-> "KEYRING",
       parts |-> <<"git-https", "example.org", 443, "/r.git">>],
      [kind |-> "svn", remote |-> "root", method |-> "KEYRING",
       parts |-> <<"svn-https", "example.org", 0, "/s">>],
      [kind |-> "git", remote |-> "mirror", method |-> "None",
       parts |-> <<"git-git", "example.org", 0, "/r.git">>],
      [kind |-> "git", remote |-> "upstream", method |-> "SSH_AGENT",
       parts |-> <<"git-ssh", "example.org", 0, "/r.git">>]>>

PartsOf(ws) == {ws[k].parts : k \in DOMAIN ws}

\* SecretStorage.is_requiring_authentication: the Fact of the identity, as
\* get_credentials finds it: "None" (unknown), "False" or "True".
is_requiring_authentication(st, protocol, server, port, objname) ==
    {IF r.kind = "list" THEN "True" ELSE r.kind :
        r \in get_credentials(st, protocol, server, port, objname)}

\* SecretStorage.set_authenticating: _set_authenticating under its public name.
set_authenticating(st, protocol, server, port, objname) ==
    _set_authenticating(st, protocol, server, port, objname)

\* ask_user_for_password that hands back what was typed and stores nothing.
ask_user_for_password_unsaved(st, parts, username, password) == {st}

\* ask_user_for_password(keyring, url, parts), for what the user types: the
\* possible stores after it.  __main__ passes can_be_empty=False, so the
\* username typed is not empty there.
ask_user_for_password(st, parts, username, password) ==
    IF username = ""
    THEN set_unauthenticated(st, parts[1], parts[2], parts[3], parts[4])
    ELSE set_credential(st, parts[1], parts[2], parts[3], username, password,
                        parts[4])

\* The command line of Git.UsernamePasswordAuthenticationChecker._fun.
git_fun_command(remote) == <<"git", "remote", "show", remote>>

\* The command line of Git.UsernamePasswordWrappingUpdater.update, for a
\* clone without an 'update' alias.
git_update_command(remote) == <<"git", "fetch", remote>>

\* `if self._credentials:` of Subversion's _fun and update: the options
\* appended to the command.
svn_credentials(credentials, username, password) ==
    IF credentials
    THEN <<"--username", username, "--password", password>>
    ELSE <<>>

\* The command line of Subversion.UsernamePasswordAuthenticationChecker._fun.
svn_fun_command(credentials, username, password) ==
    <<"svn", "log", "--limit", str(1), "--no-auth-cache", "--non-interactive">>
        \o svn_credentials(credentials, username, password)

\* The command line of Subversion.UsernamePasswordUpdater.update.
svn_update_command(credentials, username, password) ==
    <<"svn", "update", "--no-auth-cache", "--non-interactive">>
        \o svn_credentials(credentials, username, password)

\* One invocation of the askpass helper by the child, from s = [store, files,
\* stdout], stdout being what the helper has printed for the child so far.
Invoke(module, env, s) ==
    {[store |-> r.store, files |-> r.files,
      stdout |-> Append(s.stdout, r.stdout)] :
        r \in {IF module = "sync_repositories"
               THEN execute(s.store, s.files, env, credentials)
               ELSE legacy_execute(s.store, s.files, env, credentials) :
                    credentials \in get_credentials(s.store,
                        env.SR_ASKPASS_PROTOCOL, env.SR_ASKPASS_SERVER,
                        env.SR_ASKPASS_PORT, env.SR_ASKPASS_OBJECT)}}

\* subprocess.run(command, env=env) of git: the child asks the helper for
\* nothing, for a username, or for a username and then a password.  The
\* possible [store, files, stdout] when it ends.
subprocess_run(module, env, st, fs) ==
    LET s0 == {[store |-> st, files |-> fs, stdout |-> <<>>]}
        s1 == UNION {Invoke(module, env, s) : s \in s0}
        s2 == UNION {Invoke(module, env, s) : s \in s1}
    IN  s0 \cup s1 \cup s2

\* get_auth_requirement_detector_for(remote): the detector of the remote w.
DetectorOf(w) == IF w.method # "KEYRING" THEN "none" ELSE w.kind

\* (None, None): the placeholder credential of a remote that needs none.
Placeholder == <<>>

\* check() / check_credentials() of the detector of the remote w, started
\* with the store st: every way the probe can end, as [store, files,
\* sessions, command, outcome].  The detector of a remote that is not
\* KEYRING-backed runs nothing and validates everything.
probe(st, w, credentials, username, password) ==
    IF w.method # "KEYRING"
    THEN {[store |-> st, files |-> files, sessions |-> sessions,
           command |-> <<>>, outcome |-> "zero"]}
    ELSE IF w.kind = "svn"
    THEN {[store |-> st, files |-> files, sessions |-> sessions,
           command |-> svn_fun_command(credentials, username, password),
           outcome |-> o] : o \in Outcomes}
    ELSE LET filepath == mkstemp
             module == IF credentials THEN "sync_repositories"
                                      ELSE "credentials"
             kind == IF credentials THEN "check_credentials" ELSE "check"
             created ==
                IF credentials
                THEN create_with_credentials(st, username, password,
                        w.parts[1], w.parts[2], w.parts[3], w.parts[4],
                        filepath)
                ELSE {[store |-> st,
                       env |-> legacy_create(w.parts[1], w.parts[2],
                                   w.parts[3], w.parts[4], filepath)]}
         IN  UNION {
                {[store |-> r.store, files |-> r.files,
                  sessions |-> Append(sessions,
                      [Session(kind, module, c.env) EXCEPT !.state = o]),
                  command |-> git_fun_command(w.remote),
                  outcome |-> o] :
                    r \in subprocess_run(module, c.env, c.store,
                                         files @@ (filepath :> "U")),
                    o \in Outcomes}
                : c \in created}

\* How the run of an update can end for update(): exit zero, or not.
UpdateOutcomes == {"zero", "failed"}

\* update() of the updater of the remote w for the credential kr_cred: every
\* way it can end, as [store, files, sessions, command, stdout, outcome],
\* stdout being what the askpass helper printed for the child.
update(w, kr_cred) ==
    IF w.kind = "svn"
    THEN {[store |-> store, files |-> files, sessions |-> sessions,
           command |-> IF kr_cred = Placeholder
                       THEN svn_update_command(FALSE, "", "")
                       ELSE svn_update_command(TRUE, kr_cred[1], kr_cred[2]),
           stdout |-> <<>>,
           outcome |-> o] : o \in UpdateOutcomes}
    ELSE LET filepath == mkstemp
             env == legacy_create(w.parts[1], w.parts[2], w.parts[3],
                                  w.parts[4], filepath)
         IN  {[store |-> r.store, files |-> r.files,
               sessions |-> Append(sessions,
                   [Session("update", "credentials", env) EXCEPT !.state = o]),
               command |-> git_update_command(w.remote),
               stdout |-> r.stdout,
               outcome |-> o] :
                    r \in subprocess_run("credentials", env, store,
                                         files @@ (filepath :> "U")),
                    o \in UpdateOutcomes}

\* The run of __main__ with the subprocess of r spawned.
Spawned(r) ==
    [run EXCEPT !.commands = @ \cup (IF r.command = <<>> THEN {}
                                                        ELSE {r.command})]

\* NextRemote with the update loop nested in the discovery loop: the remotes
\* selected so far are updated as soon as one remote has been looked at.
NextRemote_updating_at_once(r) ==
    [r EXCEPT !.pc = IF r.repo_data = <<>> THEN "done" ELSE "update",
              !.remote = 1,
              !.discovered = @ \cup {r.remote},
              !.needs_credentials = FALSE, !.can_update = FALSE]

\* The end of the body of `for remote, url, parts in repo.get_remotes()`: the
\* next remote or, after the last one, the update loop.
NextRemote(r) ==
    IF r.remote < Len(Worktree)
    THEN [r EXCEPT !.pc = "remote", !.remote = @ + 1,
                   !.discovered = @ \cup {r.remote},
                   !.needs_credentials = FALSE, !.can_update = FALSE]
    ELSE [r EXCEPT !.pc = IF r.repo_data = <<>> THEN "done" ELSE "update",
                   !.remote = 1,
                   !.discovered = @ \cup {r.remote},
                   !.needs_credentials = FALSE, !.can_update = FALSE]

\* `repo_data.append((remote, url, parts))`
Ready(r) == NextRemote([r EXCEPT !.repo_data = Append(@, r.remote),
                                 !.can_update = TRUE])

\* `continue` left out: the remote falls through to the append.
Skipped_falls_through(r) == Ready(r)

\* `continue` without the append: the remote is left out of the update.
Skipped(r) == NextRemote([r EXCEPT !.skipped = @ \cup {r.remote}])

\* An exception nothing catches ends the run.
Aborted(r, raised) == [r EXCEPT !.pc = "aborted", !.raised = raised]

\* __main__ up to the discovery loop: the options are parsed, the keyring is
\* obtained.
StartRun ==
    \E daemon \in BOOLEAN :
        /\ run.pc = "idle"
        /\ run' = [run EXCEPT !.pc = "remote", !.daemon = daemon, !.remote = 1]
        /\ UNCHANGED <<store, replaceRule, files, sessions, last>>

\* __main__, lines 55-81: what is known of the remote and, if nothing, the
\* probe and the Fact it gives.
CheckAuthentication ==
    LET w == Worktree[run.remote]
        parts == w.parts
    IN  /\ run.pc = "remote"
        /\ \E check_authentication \in is_requiring_authentication(store,
                    parts[1], parts[2], parts[3], parts[4]) :
            IF check_authentication = "None"
            THEN \E r \in probe(store, w, FALSE, "", "") :
                    LET checked == [Spawned(r) EXCEPT
                            !.check_authentication =
                                @ \cup {<<run.remote, check_authentication>>},
                            !.check = @ \cup {<<run.remote, r.outcome>>}]
                        c == check(DetectorOf(w), r.outcome)
                    IN  /\ files' = r.files
                        /\ sessions' = r.sessions
                        /\ IF c.raised = "CalledProcessError"
                           THEN /\ store' = r.store
                                /\ run' = Skipped(checked)
                           ELSE IF c.ret = True
                           THEN /\ store' \in set_authenticating(r.store,
                                        parts[1], parts[2], parts[3], parts[4])
                                /\ run' = [checked EXCEPT
                                            !.pc = "backend",
                                            !.needs_credentials = TRUE]
                           ELSE /\ store' \in set_unauthenticated(r.store,
                                        parts[1], parts[2], parts[3], parts[4])
                                /\ run' = [checked EXCEPT
                                            !.pc = "backend",
                                            !.needs_credentials = FALSE,
                                            !.can_update = TRUE]
            ELSE /\ run' = [run EXCEPT
                        !.check_authentication =
                            @ \cup {<<run.remote, check_authentication>>},
                        !.pc = "backend",
                        !.needs_credentials = (check_authentication = "True"),
                        !.can_update = (check_authentication = "False")]
                 /\ UNCHANGED <<store, files, sessions>>
        /\ UNCHANGED <<replaceRule, last>>

\* `if not argv.daemon:` with the test left out: the user is always asked.
asks_always(daemon) == TRUE

\* `if not argv.daemon:`: the user is asked only in an attended run.
asks(daemon) == ~daemon

\* __main__, lines 83-125: the credentials of a KEYRING-backed remote that
\* needs them (asked from the user and validated when none is stored and the
\* run is attended), and the decision to update the remote or to skip it.
Authenticate ==
    LET w == Worktree[run.remote]
        parts == w.parts
    IN  /\ run.pc = "backend"
        /\ IF w.method # "KEYRING"
           THEN /\ run' = NextRemote(run)
                /\ UNCHANGED <<store, files, sessions>>
           ELSE IF ~run.needs_credentials
           THEN /\ run' = IF run.can_update THEN Ready(run) ELSE Skipped(run)
                /\ UNCHANGED <<store, files, sessions>>
           ELSE \E credentials_stored \in get_credentials(store,
                        parts[1], parts[2], parts[3], parts[4]) :
                LET looked == [run EXCEPT !.credentials_stored = @ \cup
                        {<<run.remote, Truthy(credentials_stored)>>}]
                IN
                IF Truthy(credentials_stored)
                THEN /\ run' = Ready(looked)
                     /\ UNCHANGED <<store, files, sessions>>
                ELSE IF ~asks(run.daemon)
                THEN /\ run' = Skipped(looked)
                     /\ UNCHANGED <<store, files, sessions>>
                ELSE \E <<u, p>> \in Credentials :
                     \E asked \in ask_user_for_password(store, parts, u, p) :
                     \E r \in probe(asked, w, TRUE, u, p) :
                        LET prompted == [looked EXCEPT
                                !.commands = @ \cup {r.command},
                                !.prompted = @ \cup {run.remote},
                                !.entered = @ \cup {<<run.remote, u, p>>},
                                !.check_credentials =
                                    @ \cup {<<run.remote, r.outcome>>}]
                            deleted == delete_credential(r.store, parts[1],
                                            parts[2], parts[3], u, parts[4])
                            c == check_credentials(DetectorOf(w), TRUE,
                                                   r.outcome)
                        IN  /\ files' = r.files
                            /\ sessions' = r.sessions
                            /\ IF c.raised # "none"
                               THEN /\ store' = r.store
                                    /\ run' = Aborted(prompted, c.raised)
                               ELSE IF c.ret = True
                               THEN /\ store' = r.store
                                    /\ run' = Ready(prompted)
                               ELSE /\ store' = deleted.store
                                    /\ run' = IF deleted.raised # "none"
                                              THEN Aborted(prompted,
                                                           deleted.raised)
                                              ELSE Skipped(prompted)
        /\ UNCHANGED <<replaceRule, last>>

\* The end of the body of `for remote, url, parts in data`: the next remote
\* selected for update or the end of the run.
NextUpdate(r) ==
    [r EXCEPT !.pc = IF r.remote < Len(r.repo_data) THEN "update" ELSE "done",
              !.remote = IF r.remote < Len(r.repo_data) THEN @ + 1 ELSE @,
              !.kr_creds = <<>>, !.kr_cred = 0, !.update_success = FALSE]

\* __main__, lines 133-142: the credentials the remote is updated with.
GetUpdateCredentials ==
    LET w == Worktree[run.repo_data[run.remote]]
        parts == w.parts
    IN  /\ run.pc = "update"
        /\ IF w.method # "KEYRING"
           THEN run' = NextUpdate(run)
           ELSE \E kr_creds \in get_credentials(store, parts[1], parts[2],
                                                parts[3], parts[4]) :
                    run' = [run EXCEPT
                        !.pc = "updating",
                        !.kr_creds = IF Truthy(kr_creds) THEN kr_creds.creds
                                     ELSE <<Placeholder>>,
                        !.kr_cred = 1]
        /\ UNCHANGED <<store, replaceRule, files, sessions, last>>

\* `update_success or updater.update()` with `and` for `or`.
or_update_as_and(update_success, returned) == update_success /\ returned = True

\* `update_success or updater.update()`, for what update() returned.
or_update(update_success, returned) == update_success \/ returned = True

\* `if not update_success: print("Failed to update ...")`: the remotes
\* reported as failed, after the loop over the credentials of the remote k.
Reported(failed, update_success, k) ==
    IF ~update_success THEN failed \cup {k} ELSE failed

\* __main__, lines 144-151: one turn of `for kr_cred in kr_creds` in which
\* update() is called, and after the last one the report; once
\* update_success is true the `or` calls update() no more, so the turns
\* left run nothing.
Update ==
    LET k == run.repo_data[run.remote]
        w == Worktree[k]
        kr_cred == run.kr_creds[run.kr_cred]
    IN  /\ run.pc = "updating"
        /\ \E r \in update(w, kr_cred) :
            LET update_success == or_update(run.update_success,
                                            update_returns(r.outcome).ret)
                tried == [Spawned(r) EXCEPT
                            !.attempted = @ \cup {k},
                            !.updated = IF r.outcome = "zero"
                                        THEN @ \cup {k} ELSE @,
                            !.attempts = @ \cup
                                {[remote |-> k, index |-> run.kr_cred,
                                  of |-> Len(run.kr_creds),
                                  kr_cred |-> kr_cred, stdout |-> r.stdout,
                                  outcome |-> r.outcome]},
                            !.update_success = update_success]
            IN  /\ store' = r.store
                /\ files' = r.files
                /\ sessions' = r.sessions
                /\ run' = IF ~update_success /\ run.kr_cred < Len(run.kr_creds)
                          THEN [tried EXCEPT !.kr_cred = @ + 1]
                          ELSE NextUpdate([tried EXCEPT !.failed =
                                    Reported(@, update_success, k)])
        /\ UNCHANGED <<replaceRule, last>>

\* The identities of the remotes a credential can be asked for: those of
\* the KEYRING backend.
KeyringParts == {Worktree[k].parts : k \in {j \in DOMAIN Worktree : Worktree[j].method = "KEYRING"}}

\* What the keyring holds when the run starts, left there by earlier runs:
\* credentials and the Fact REQUIRED for remotes of the KEYRING backend (the
\* only ones whose check() can return true), the Fact NOT_REQUIRED for any.
Stored ==
    /\ run.pc = "idle"
    /\ \/ SetCredentialIn(KeyringParts, Credentials)
       \/ SetAuthenticatingIn(KeyringParts)
       \/ SetUnauthenticatedIn(PartsOf(Worktree))

MainNext ==
    \/ Stored
    \/ StartRun
    \/ CheckAuthentication
    \/ Authenticate
    \/ GetUpdateCredentials
    \/ Update

SpecMain == Init /\ [][MainNext]_vars

\* The program is run again after a run that has ended, over the same
\* remotes and with the keyring as that run left it; the first run starts
\* with an empty keyring.  Of the earlier run it
\* is kept which remotes had a credential entered and validated, and which
\* had their Fact found in the keyring or stored after a probe.
Rerun ==
    \E daemon \in BOOLEAN :
        /\ run.pc \in {"done", "aborted"}
        /\ ~run.rerun
        /\ run' = [NotStarted EXCEPT
                    !.pc = "remote", !.daemon = daemon, !.remote = 1,
                    !.rerun = TRUE,
                    !.validated = {k \in DOMAIN Worktree :
                        <<k, "zero">> \in run.check_credentials},
                    !.known = {k \in DOMAIN Worktree :
                        \/ <<k, "False">> \in run.check_authentication
                        \/ <<k, "True">> \in run.check_authentication
                        \/ <<k, "zero">> \in run.check
                        \/ <<k, "authentication_failed">> \in run.check}]
        /\ UNCHANGED <<store, replaceRule, files, sessions, last>>

TwiceNext ==
    \/ StartRun
    \/ CheckAuthentication
    \/ Authenticate
    \/ GetUpdateCredentials
    \/ Update
    \/ Rerun

SpecTwice == Init /\ [][TwiceNext]_vars

\* ------------------------------------------------------------ claims
\* What get_credentials can return for the identity of the last call.
LastResults == get_credentials(store, last.protocol, last.server, last.port,
                               last.objname)

\* The store as it was before the last call.
Before ==
    LET items == {i \in BagToSet(store) \cup DOMAIN last.before :
                    IF i \in DOMAIN last.before
                    THEN last.before[i] > 0 ELSE TRUE}
    IN  [i \in items |-> IF i \in DOMAIN last.before
                         THEN last.before[i] ELSE store[i]]

Unchanged(i) == i \notin DOMAIN last.before

\* Items stored under (protocol, server, port), whatever their object.
UnderServer(st, protocol, server, port) ==
    {i \in BagToSet(st) : /\ i.attrs["protocol"] = protocol
                          /\ i.attrs["server"] = server
                          /\ i.attrs["port"] = str(port)}

IsNote(i) == i.attrs["xdg:schema"] = "org.gnome.keyring.Note"

\* The object an item is stored under ("" when it carries none).
ObjectOf(i) == IF "object" \in DOMAIN i.attrs THEN i.attrs["object"] ELSE ""

\* The items stored under exactly the identity (protocol, server, port,
\* objname): all four fields equal, an item without object counting as "".
StoredUnder(st, protocol, server, port, objname) ==
    {i \in UnderServer(st, protocol, server, port) : ObjectOf(i) = objname}

\* The credentials of the last call's user name stored under exactly the
\* last call's identity.
LastCredentials(st) ==
    {i \in StoredUnder(st, last.protocol, last.server, last.port,
                       last.objname) :
        ~IsNote(i) /\ i.attrs["user"] = last.user}

SetThenGet ==
    \A r \in LastResults :
        r.kind = "list" /\ <<last.user, last.password>> \in Range(r.creds)

\* C1 as stated: after set_credential(identity, u, p), get_credentials(identity)
\* returns a list containing (u, p) (so the Fact is REQUIRED), for every
\* identity.
C1_SetThenGet_AnyIdentity == last.op = "set_credential" => SetThenGet

\* C1 amended: the same, for every identity that names a (non-empty) object.
C1_SetThenGet ==
    (last.op = "set_credential" /\ last.objname # "") => SetThenGet

\* A second credential has just been set under an object whose Fact was
\* NOT_REQUIRED.
C1_Witness ==
    /\ last.op = "set_credential"
    /\ last.objname # ""
    /\ \E i \in DOMAIN last.before : IsNote(i) /\ i.secret = "False"
    /\ \E r \in LastResults : Len(r.creds) = 2

\* C2 as stated: after set_unauthenticated(identity), get_credentials(identity)
\* returns False (NOT_REQUIRED), for every identity and prior store content.
C2_UnauthThenGet_AnyIdentity ==
    last.op = "set_unauthenticated" => LastResults = {False}

\* C2 amended: the same, for every identity that names a (non-empty) object.
C2_UnauthThenGet ==
    (last.op = "set_unauthenticated" /\ last.objname # "")
        => LastResults = {False}

\* The identity was REQUIRED and holds a credential.
C2_Witness ==
    /\ last.op = "set_unauthenticated"
    /\ last.objname # ""
    /\ \E i \in DOMAIN last.before : IsNote(i) /\ i.secret = "True"
    /\ \E i \in StoredUnder(store, last.protocol, last.server, last.port,
                            last.objname) : ~IsNote(i)

\* C3 as stated: delete_credential(identity, username) with no credential
\* stored for that (identity, username) raises KeyError and leaves the store
\* unchanged.
C3_DeleteMissing_AnyIdentity ==
    (last.op = "delete_credential" /\ LastCredentials(Before) = {})
        => (last.raised = "KeyError" /\ store = Before)

\* C3 amended: delete_credential(identity, username) raises KeyError and
\* leaves the store unchanged when no credential of that user name is stored
\* under the identity or, for an identity without object, under any object of
\* its server.
C3_DeleteMissing ==
    (/\ last.op = "delete_credential"
     /\ \A i \in UnderServer(Before, last.protocol, last.server, last.port) :
            (~IsNote(i) /\ i.attrs["user"] = last.user)
                => (last.objname # "" /\ ObjectOf(i) # last.objname))
        => (last.raised = "KeyError" /\ store = Before)

\* The identity holds a credential, of another user.
C3_Witness ==
    /\ last.op = "delete_credential"
    /\ last.raised = "KeyError"
    /\ \E i \in StoredUnder(store, last.protocol, last.server, last.port,
                            last.objname) : ~IsNote(i)

\* C4 as stated: delete_credential(identity, username) with a credential
\* stored for it completes without error and removes exactly that credential,
\* leaving every other item unchanged.
C4_DeleteExisting ==
    (last.op = "delete_credential" /\ LastCredentials(Before) # {})
        => /\ last.raised = "none"
           /\ LastCredentials(store) = {}
           /\ DOMAIN last.before = LastCredentials(Before)

\* C5: delete_server(protocol, server, port) leaves no credential and no Fact
\* under that server for any object (get_credentials is None for each), and
\* leaves the items of every other (protocol, server, port) as they were.
C5_DeleteServer ==
    last.op = "delete_server"
        => /\ UnderServer(store, last.protocol, last.server, last.port) = {}
           /\ \A id \in Identities :
                (id[1] = last.protocol /\ id[2] = last.server
                    /\ str(id[3]) = last.port)
                    => get_credentials(store, id[1], id[2], id[3], id[4])
                        = {None}
           /\ DOMAIN last.before
                = UnderServer(Before, last.protocol, last.server, last.port)

\* delete_server has just removed the entries of two objects of one server
\* and left the entry of another server.
C5_Witness ==
    /\ last.op = "delete_server"
    /\ Cardinality({ObjectOf(i) : i \in DOMAIN last.before}) >= 2
    /\ store # EmptyBag

\* get_credentials(identity) answers from the items of S and from no other.
AnswersFrom(S, protocol, server, port, objname) ==
    LET rs == get_credentials(store, protocol, server, port, objname)
    IN  /\ (None \in rs) <=> ~(\E i \in S : IsNote(i))
        /\ (False \in rs) <=> (\E i \in S : IsNote(i) /\ i.secret = "False")
        /\ \A r \in rs :
             Range(r.creds) = IF r.kind = "list"
                              THEN {<<i.attrs["user"], i.secret>> :
                                        i \in {j \in S : ~IsNote(j)}}
                              ELSE {}

WriteOps == {"set_credential", "set_unauthenticated", "_set_authenticating"}

\* C6 as stated: lookups and writes are exact on all four fields, the empty
\* object included: get_credentials without object answers only from the
\* items stored without object, and a write without object changes no item
\* stored under an object.
C6_ExactMatch_AnyObject ==
    /\ \A id \in Identities :
            AnswersFrom(StoredUnder(store, id[1], id[2], id[3], id[4]),
                        id[1], id[2], id[3], id[4])
    /\ last.op \in WriteOps
            => \A i \in DOMAIN last.before :
                    i \in StoredUnder(Before (+) store, last.protocol,
                                      last.server, last.port, last.objname)

\* C6 amended: a lookup or write that names a non-empty object is exact on
\* all four fields: get_credentials answers only from the items stored under
\* exactly that identity, and the write changes no item of another identity.
\* A lookup without object is unconstrained: it answers from the items of
\* every object of (protocol, server, port).
C6_ExactMatch ==
    /\ \A id \in Identities :
            AnswersFrom(IF id[4] # ""
                        THEN StoredUnder(store, id[1], id[2], id[3], id[4])
                        ELSE UnderServer(store, id[1], id[2], id[3]),
                        id[1], id[2], id[3], id[4])
    /\ (last.op \in WriteOps /\ last.objname # "")
            => \A i \in DOMAIN last.before :
                    i \in StoredUnder(Before (+) store, last.protocol,
                                      last.server, last.port, last.objname)

\* A lookup under one object has just answered None while the same server
\* holds a Fact and a credential, stored under another object or under none.
C6_Witness ==
    /\ last.op = "get_credentials"
    /\ last.objname # ""
    /\ last.ret = None
    /\ \E i \in UnderServer(store, last.protocol, last.server, last.port) :
        IsNote(i)
    /\ \E i \in UnderServer(store, last.protocol, last.server, last.port) :
        ~IsNote(i)

\* ------------------------------------------------------ relay claims
\* The items the helper's lookup is made over: those stored under exactly
\* the identity of its environment or, when that identity has no object,
\* under any object of its server.
LookupScope(st) ==
    IF last.objname # ""
    THEN StoredUnder(st, last.protocol, last.server, last.port, last.objname)
    ELSE UnderServer(st, last.protocol, last.server, last.port)

\* The credentials stored under exactly the identity of the environment.
StoredCredentials(st) ==
    {i \in StoredUnder(st, last.protocol, last.server, last.port,
                       last.objname) : ~IsNote(i)}

LastEnv == sessions[last.session].env

MarkerExists == LastEnv.SR_ASKPASS_TEMP \in DOMAIN files

\* The two steps of the handshake, for the credential (u, p).
Handshake(u, p) ==
    /\ last.content = "U"
        => /\ last.stdout = u
           /\ MarkerExists /\ files[LastEnv.SR_ASKPASS_TEMP] = "P"
           /\ last.exit = 0 /\ last.raised = "none"
    /\ last.content = "P"
        => /\ last.stdout = p
           /\ ~MarkerExists
           /\ last.exit = 0 /\ last.raised = "none"

\* C7 as stated: with the marker at 'U' and a credential (u, p) stored for
\* the identity of the environment, the first invocation prints u, leaves the
\* marker at 'P' and exits zero; the second prints p, deletes the marker and
\* exits zero.
C7_Handshake_AnyStored ==
    last.op = "execute"
        => \A i \in StoredCredentials(Before) :
                Handshake(i.attrs["user"], i.secret)

\* C7 amended: the same, when (u, p) is the only credential the lookup for
\* the identity of the environment finds and every Fact it finds is REQUIRED,
\* at each of the two invocations.
C7_Handshake ==
    (/\ last.op = "execute"
     /\ \E i \in LookupScope(Before) : IsNote(i)
     /\ \A i \in LookupScope(Before) : IsNote(i) => i.secret = "True")
        => \A i \in LookupScope(Before) :
            (/\ ~IsNote(i)
             /\ BagCardinality([j \in {k \in LookupScope(Before) : ~IsNote(k)}
                                    |-> Before[j]]) = 1)
                => Handshake(i.attrs["user"], i.secret)

\* The password step of a handshake on a stored credential has just ended.
C7_Witness ==
    /\ last.op = "execute"
    /\ last.content = "P"
    /\ last.protocol # "temp"
    /\ \E i \in StoredCredentials(store) : last.stdout = i.secret
    /\ ~MarkerExists

\* C8: when the password step of a handshake created by
\* create_with_credentials has completed, get_credentials on the synthetic
\* identity ('temp', object suffixed '__TEMP') returns None.
C8_TemporaryDeleted ==
    (/\ last.op = "execute"
     /\ sessions[last.session].kind = "check_credentials"
     /\ last.content = "P" /\ last.raised = "none" /\ Truthy(last.ret))
        => /\ last.protocol = "temp" /\ EndsWith(last.objname, "__TEMP")
           /\ LastResults = {None}

\* The password step has just deleted the synthetic credential and its Fact.
C8_Witness ==
    /\ last.op = "execute"
    /\ sessions[last.session].kind = "check_credentials"
    /\ last.content = "P"
    /\ last.stdout \in Passwords
    /\ \E i \in DOMAIN last.before : IsNote(i)
    /\ \E i \in DOMAIN last.before : ~IsNote(i)

\* C9 as stated: once check_credentials() has returned or raised, whatever
\* the external tool did, no 'temp' / '__TEMP' credential or Fact is left in
\* the store.
C9_NoTemporaryLeft ==
    (last.op = "finish" /\ sessions[last.session].kind = "check_credentials")
        => \A i \in BagToSet(store) : i.attrs["protocol"] # "temp"

C11_MarkerRemoved ==
    (last.op = "execute" /\ last.content = "P") => ~MarkerExists

\* C12: once the probe or update a relay session was created for has ended,
\* the marker file of that session does not exist, however many times the
\* external tool invoked the helper.
C12_SessionDestroyed ==
    last.op = "finish" => ~MarkerExists

\* C13: a marker file, while it exists, holds 'U', 'P' or nothing, the
\* environment of the child holds no username or password, and a username or
\* password is written to standard output only by the helper invocation
\* that delivers it: the username of the first credential found when the
\* marker was at 'U', its password when the marker was at 'P'.
C13_NoSecretInMarker ==
    /\ \A f \in DOMAIN files : files[f] \in {"U", "P", ""}
    /\ \A k \in DOMAIN sessions :
            LET env == sessions[k].env
            IN  {env[n] : n \in DOMAIN env \ {"SR_ASKPASS_TEMP"}}
                    \cap (Users \cup Passwords) = {}
    /\ last.stdout \in Users \cup Passwords
        => /\ last.op = "execute"
           /\ Truthy(last.ret)
           /\ last.content \in {"U", "P"}
           /\ last.stdout = IF last.content = "U" THEN last.ret.creds[1][1]
                                                  ELSE last.ret.creds[1][2]

\* The username step has just printed a stored username and left the marker
\* at 'P'.
C13_Witness ==
    /\ last.op = "execute"
    /\ last.content = "U"
    /\ last.stdout \in Users
    /\ MarkerExists /\ files[LastEnv.SR_ASKPASS_TEMP] = "P"

\* ------------------------------------------------------- run claims
\* What get_credentials can return for the remote k of the worktree.
CredentialsOf(k) ==
    get_credentials(store, Worktree[k].parts[1], Worktree[k].parts[2],
                    Worktree[k].parts[3], Worktree[k].parts[4])

\* The remote k was found with the Fact `fact` and, when unknown, its probe
\* ended with `outcome`.
Probed(k, outcome) ==
    /\ <<k, "None">> \in run.check_authentication
    /\ <<k, outcome>> \in run.check

\* C14: no subprocess spawned by a check, a validation or an update, of Git
\* or of Subversion, has a password among its command-line arguments.
C14_NoPasswordInArgv ==
    \A command \in run.commands : Range(command) \cap Passwords = {}

\* C15: a remote found with the Fact UNKNOWN whose check() returned false
\* has, once its discovery is over, the Fact NOT_REQUIRED, is in the list of
\* remotes to update and was not prompted for.
C15_NotRequiredReady ==
    \A k \in run.discovered :
        Probed(k, "zero")
            => /\ CredentialsOf(k) = {False}
               /\ k \in Range(run.repo_data)
               /\ k \notin run.prompted

C17_ProbeFailureSkips ==
    \A k \in DOMAIN Worktree :
        Probed(k, "failed")
            => /\ k \in run.discovered
               /\ k \in run.skipped
               /\ k \notin Range(run.repo_data)
               /\ k \notin run.prompted
               /\ k \notin run.attempted
               /\ CredentialsOf(k) = {None}
               /\ run.pc \in {"update", "updating", "done"}
                    => run.discovered = DOMAIN Worktree

\* The probe of one remote failed, and the run ended having updated another.
C17_Witness ==
    /\ run.pc = "done"
    /\ \E k \in DOMAIN Worktree : Probed(k, "failed")
    /\ run.updated # {}

\* C18: in an unattended run, a KEYRING-backed remote that is REQUIRED and
\* has no credential stored is skipped (not selected for update, no update
\* attempted) and nobody is prompted.
C18_UnattendedSkips ==
    \A k \in DOMAIN Worktree :
        (run.daemon /\ <<k, FALSE>> \in run.credentials_stored)
            => /\ Worktree[k].method = "KEYRING"
               /\ k \in run.skipped
               /\ k \notin Range(run.repo_data)
               /\ k \notin run.attempted
               /\ run.prompted = {}
               /\ run.entered = {}

\* An unattended run has ended after it found a REQUIRED remote without a
\* credential.
C18_Witness ==
    /\ run.daemon
    /\ run.pc = "done"
    /\ \E k \in DOMAIN Worktree : <<k, FALSE>> \in run.credentials_stored

\* C19: when check_credentials() rejects the credential just entered for a
\* remote, that credential is no longer among what get_credentials returns
\* for the identity, the remote is skipped and not updated, and the run goes
\* on with the next remote.
C19_RejectedDeleted ==
    \A <<k, u, p>> \in run.entered :
        <<k, "authentication_failed">> \in run.check_credentials
            => /\ \A r \in CredentialsOf(k) : <<u, p>> \notin Range(r.creds)
               /\ k \in run.skipped
               /\ k \notin Range(run.repo_data)
               /\ k \notin run.attempted
               /\ k \in run.discovered
               /\ run.pc # "aborted"

\* C20: when check_credentials() accepts the credential entered in an
\* attended run for a REQUIRED remote without a stored credential, the
\* credential is stored under the identity of the remote, the remote is
\* selected for update, and when the run has ended an update of the remote
\* was made.
C20_AcceptedStoredUpdated ==
    \A <<k, u, p>> \in run.entered :
        <<k, "zero">> \in run.check_credentials
            => /\ \A r \in CredentialsOf(k) :
                    r.kind = "list" /\ <<u, p>> \in Range(r.creds)
               /\ k \in Range(run.repo_data)
               /\ run.pc \in {"done", "aborted"} => k \in run.attempted

\* C29: a helper invocation that finds the marker file of its session gone
\* (the handshake is over) ends normally: no exception, exit status zero, no
\* username or password printed.
C29_ThirdInvocation ==
    (last.op = "execute" /\ last.content = "missing")
        => /\ last.raised = "none"
           /\ last.exit = 0
           /\ last.stdout \notin Users \cup Passwords

\* C25: nothing that goes wrong for one remote ends the run: the run is
\* never aborted by an exception, and the update loop is entered only with
\* every remote of the worktree discovered.
C25_FailuresIsolated ==
    /\ run.pc # "aborted"
    /\ run.pc \in {"update", "updating", "done"}
        => run.discovered = DOMAIN Worktree

\* C21: when the run has ended, every remote found or probed to be
\* NOT_REQUIRED, whatever its authentication backend, was selected for
\* update and an update of it was attempted, and it was not prompted for.
C21_NotRequiredUpdated ==
    run.pc = "done"
        => \A k \in DOMAIN Worktree :
            (<<k, "False">> \in run.check_authentication \/ Probed(k, "zero"))
                => /\ k \in Range(run.repo_data)
                   /\ k \in run.attempted
                   /\ k \notin run.prompted

\* C22: a remote of the SSH_AGENT backend is, once its discovery is over,
\* in the list of remotes to update, it is updated by a run that ends, and
\* the Fact of its identity is neither read nor written: the keyring holds
\* nothing under its identity that it did not hold when the run started.
C22_AgentBypassesFact ==
    \A k \in run.discovered :
        Worktree[k].method = "SSH_AGENT"
            => /\ k \in Range(run.repo_data)
               /\ run.pc = "done" => k \in run.attempted
               /\ \A fact \in {"None", "False", "True"} :
                    <<k, fact>> \notin run.check_authentication
               /\ \A outcome \in Outcomes : <<k, outcome>> \notin run.check

\* C27: making a Git or Subversion checker with exactly one of username and
\* password raises ValueError, with both or with neither it succeeds (and
\* knows whether it has credentials); the constructor starts no child,
\* creates no marker file and writes nothing to the keyring.
C27_OneSidedRejected ==
    last.op = "__init__"
        => /\ last.raised = "ValueError"
                <=> (last.user = Absent) # (last.password = Absent)
           /\ last.raised \in {"none", "ValueError"}
           /\ last.raised = "none" => last.ret = IF last.user = Absent
                                                 THEN False ELSE True
           /\ last.before = <<>>
           /\ last.session = 0

\* A Subversion checker was refused for a username given without a password.
C27_Witness ==
    /\ last.op = "__init__"
    /\ last.detector = "svn"
    /\ last.user \in Users /\ last.password = Absent
    /\ last.raised = "ValueError"

\* C28: check() returns false when the probe exits zero, true when it exits
\* non-zero with "Authentication failed" in its output, and for any other
\* non-zero exit raises the failure instead of returning; the validator of
\* a remote that does not authenticate returns false from check() and true
\* from check_credentials().
C28_Classification ==
    LET method == IF last.op = "finish" THEN sessions[last.session].kind
                                          ELSE last.op
        signature == "Authentication failed" \in Range(last.output)
    IN  /\ (method = "check" /\ last.detector \in {"git", "svn"})
            => /\ last.returncode = 0
                    => (last.raised = "none" /\ last.ret = False)
               /\ (last.returncode # 0 /\ signature)
                    => (last.raised = "none" /\ last.ret = True)
               /\ (last.returncode # 0 /\ ~signature)
                    => /\ last.raised = "CalledProcessError"
                       /\ last.ret \notin {True, False}
        /\ (method = "check" /\ last.detector = "none")
            => (last.raised = "none" /\ last.ret = False)
        /\ (method = "check_credentials" /\ last.detector = "none")
            => (last.raised = "none" /\ last.ret = True)

\* The probe of a Git check() with the relay has failed for a reason that is
\* not authentication, and check() has raised.
C28_Witness ==
    /\ last.op = "finish"
    /\ sessions[last.session].kind = "check"
    /\ last.returncode # 0
    /\ "Authentication failed" \notin Range(last.output)
    /\ last.raised = "CalledProcessError"

\* The update attempts made for the remote k.
AttemptsOf(k) == {a \in run.attempts : a.remote = k}

\* C23: for a remote updated with n >= 1 stored credentials a run that ends
\* has called update() n times, once for each, and whenever the child of
\* the i-th call asked for a username and a password it was given those of
\* the i-th credential; for a remote with no credential update() is called
\* once, with the placeholder.
C23_AttemptPerCredential ==
    /\ \A a \in run.attempts :
            /\ (a.kr_cred # Placeholder /\ Len(a.stdout) = 2)
                    => a.stdout = a.kr_cred
            /\ a.kr_cred = Placeholder => (a.of = 1 /\ a.index = 1)
    /\ run.pc = "done"
        => \A a \in run.attempts :
                {b.index : b \in AttemptsOf(a.remote)} = 1..a.of

\* The remotes the update loop is through with.
Finished ==
    {run.repo_data[i] : i \in {j \in DOMAIN run.repo_data :
        \/ run.pc = "done"
        \/ run.pc \in {"update", "updating"} /\ j < run.remote}}

\* C24: a remote the update loop is through with is reported as failed
\* exactly when none of the update attempts made for it exited zero, and
\* no other remote is reported.
C24_SuccessIsOr ==
    /\ \A k \in Finished :
            k \in run.failed
                <=> ~\E a \in AttemptsOf(k) : returncode(a.outcome) = 0
    /\ run.failed \subseteq Finished

\* A run has ended with one remote updated at its second attempt and
\* another reported as failed.
C24_Witness ==
    /\ run.pc = "done"
    /\ run.failed # {}
    /\ \E k \in Finished \ run.failed :
            \E a \in AttemptsOf(k) : returncode(a.outcome) # 0

MarkerOf(k) == sessions[k].env.SR_ASKPASS_TEMP

\* The content of the marker file f among the files fs, "missing" if gone.
ContentIn(fs, f) == IF f \in DOMAIN fs THEN fs[f] ELSE "missing"

Earlier ==
    {i \in StoredCredentials(Before) :
        last.op = "set_credential" => i.attrs["user"] # last.user}

\* After _set_authenticating or set_credential every answer of
\* get_credentials(identity) is a list holding the earlier credentials.
ReturnsEarlier ==
    \A r \in LastResults :
        /\ r.kind = "list"
        /\ \A i \in Earlier : <<i.attrs["user"], i.secret>> \in Range(r.creds)

\* C35 as stated: set_unauthenticated(identity) changes Facts only, no
\* credential; and after a later _set_authenticating(identity) or
\* set_credential on the same identity get_credentials(identity) returns the
\* credentials stored earlier, for every identity.
C35_FactOnly_AnyIdentity ==
    /\ last.op = "set_unauthenticated"
        => \A i \in DOMAIN last.before : IsNote(i)
    /\ last.op \in {"_set_authenticating", "set_credential"}
        => ReturnsEarlier

\* C35 amended: set_unauthenticated(identity) changes Facts only, no
\* credential; and after a later _set_authenticating(identity) or
\* set_credential on the same identity, when it names a (non-empty) object,
\* get_credentials(identity) returns the credentials stored earlier.
C35_FactOnly ==
    /\ last.op = "set_unauthenticated"
        => \A i \in DOMAIN last.before : IsNote(i)
    /\ (last.op \in {"_set_authenticating", "set_credential"}
            /\ last.objname # "")
        => ReturnsEarlier

\* _set_authenticating has just replaced the Fact NOT_REQUIRED of an
\* identity that kept its credential through set_unauthenticated.
C35_Witness ==
    /\ last.op = "_set_authenticating"
    /\ last.objname # ""
    /\ \E i \in DOMAIN last.before :
            IsNote(i) /\ i.secret = "False" /\ ObjectOf(i) = last.objname
    /\ Earlier # {}
    /\ \E r \in LastResults : Len(r.creds) >= 1

\* C34: the run has two phases in this order.  An update is selected or
\* started only when the discovery has finished for every remote; every
\* subprocess of the discovery is started before every subprocess of an
\* update; and only remotes that the discovery appended as ready, none that
\* it skipped, are updated.
C34_TwoPhases ==
    /\ (run.pc \in {"update", "updating"} \/ run.attempts # {})
        => run.discovered = DOMAIN Worktree
    /\ \A i, j \in DOMAIN sessions :
            (i < j /\ sessions[i].kind = "update")
                => sessions[j].kind = "update"
    /\ \A a \in run.attempts : a.remote \in Range(run.repo_data)
    /\ Range(run.repo_data) \subseteq run.discovered \ run.skipped

\* The run has ended: a remote was probed in the discovery and updated
\* after it, and a remote discovered after that one was skipped.
C34_Witness ==
    /\ run.pc = "done"
    /\ \E a \in run.attempts : \E k \in run.skipped : a.remote < k
    /\ \E i, j \in DOMAIN sessions :
            sessions[i].kind = "check" /\ sessions[j].kind = "update"

\* C33: every (remote, url, parts) that get_remotes() yields has the parts
\* that get_remote_parts() returns for that remote name, with port 0 for a
\* URL that names no port; and no remote name is yielded twice.
C33_SameIdentity ==
    last.op = "get_remotes"
        => /\ \A k \in DOMAIN last.ret :
                /\ last.ret[k][3] = get_remote_parts(last.repo, last.ret[k][1])[2]
                /\ urlparse(last.ret[k][2]).port = <<>> => last.ret[k][3][3] = 0
           /\ \A j, k \in DOMAIN last.ret :
                j # k => last.ret[j][1] # last.ret[k][1]

\* The items the last call removed or took a copy of.
Deleted == {i \in DOMAIN last.before : CopiesIn(i, store) < last.before[i]}

\* The temporary credentials stored for the session k.
SyntheticOf(st, k) ==
    {i \in StoredUnder(st, "temp", sessions[k].env.SR_ASKPASS_SERVER,
                       sessions[k].env.SR_ASKPASS_PORT,
                       sessions[k].env.SR_ASKPASS_OBJECT) : ~IsNote(i)}

\* C31: an invocation of the helper deletes only entries of protocol 'temp'
\* stored under the object of its own session; so the temporary credential
\* of every other validation in flight, made for another object of the same
\* server and port, stays in the keyring as it was.
C31_OwnEntryOnly ==
    last.op = "execute"
        => /\ \A i \in Deleted :
                i.attrs["protocol"] = "temp" /\ ObjectOf(i) = last.objname
           /\ \A k \in DOMAIN sessions \ {last.session} :
                (/\ sessions[k].env.SR_ASKPASS_TEMPORARY_CREDENTIAL # ""
                 /\ sessions[k].env.SR_ASKPASS_OBJECT # last.objname
                 /\ MarkerOf(k) \in DOMAIN files)
                    => SyntheticOf(store, k) = SyntheticOf(Before, k)

\* C32: the username and the password that the two steps of one handshake
\* print make a (username, password) pair that was stored for the identity
\* of the session when one of the two steps was made.
C32_OnePair ==
    \A a, b \in run.relayed :
        (a.session = b.session /\ a.content = "U" /\ b.content = "P")
            => <<a.stdout, b.stdout>> \in a.pairs \cup b.pairs

====
